---- MODULE Spec2Model ----
(***************************************************************************)
(* Model of the four dylint lint libraries of rust-security-lints:         *)
(*   security_indexing_usage, missing_type, security_panic_usage and       *)
(*   security_unsafe_usage.                                                *)
(* Each library registers one late lint pass; the host compiler walks the  *)
(* HIR of a compilation unit in pre-order and calls the pass's hooks       *)
(* (check_expr, check_item, check_local) on every node.  A hook emits zero *)
(* or more diagnostics through span_lint.                                  *)
(***************************************************************************)
EXTENDS Integers, Sequences, FiniteSets, TLC

VARIABLES
    lint,     \* the lint library loaded into the compiler session
    unit,     \* the top-level nodes of the compilation unit being linted
    pending,  \* nodes the traversal has still to visit, next one first
    cur,      \* the node last offered to the pass
    hook,     \* the hook of the pass that was called on cur
    out,      \* the diagnostics that call emitted
    diags,    \* all diagnostics emitted for the unit so far, in order
    enabled,  \* the lint libraries loaded into the session
    turn,     \* which of the loaded passes is offered the next node next
    visited,  \* the nodes the traversal has left behind, in order
    offers,   \* the hook calls of this traversal: node, pass, diagnostics
    previous, \* the record of the traversal before this one, if any
    passes    \* the pass object of every lint library

vars ==
    <<lint, unit, pending, cur, hook, out, diags, enabled, turn, visited,
      offers, previous, passes>>

(***************************************************************************)
(* Bounds of the model.                                                    *)
(***************************************************************************)
MaxPos == 2
MaxDepth == 2
MaxPathLen == 3
MaxParams == 2
MaxNest == 2

(***************************************************************************)
(* Spans.  A span is a source extent lo..hi plus the chain of expansions   *)
(* that produced it, innermost first.  An empty chain is a span written    *)
(* directly by the user.  Each expansion frame is a macro expansion or a   *)
(* compiler desugaring and records the extent of its call site; the call   *)
(* site itself lives in the remaining (outer) expansions.                  *)
(***************************************************************************)
Pos == 0..MaxPos

Extents == {e \in Pos \X Pos : e[1] <= e[2]}

NodeExtents == {e \in Extents : e[2] = e[1] + 1}

ExpnKinds == {"Macro", "Desugaring"}

Frames == [kind : ExpnKinds, call_site : NodeExtents]

Chains == UNION {[1..d -> Frames] : d \in 0..MaxDepth}

MkSpan(e, c) == [lo |-> e[1], hi |-> e[2], expn |-> c]

Spans == {MkSpan(e, c) : e \in NodeExtents, c \in Chains}

DirectSpans == {MkSpan(e, <<>>) : e \in NodeExtents}

ShallowSpans == {s \in Spans : Len(s.expn) <= 1 /\ s.lo = 0}

from_expansion(span) == span.expn # <<>>

desugaring_kind_is_some(span) ==
    span.expn # <<>> /\ Head(span.expn).kind = "Desugaring"

is_empty(span) == span.lo = span.hi

call_site(span) == MkSpan(Head(span.expn).call_site, Tail(span.expn))

RECURSIVE source_callsite(_)
source_callsite(span) ==
    IF span.expn # <<>> THEN source_callsite(call_site(span)) ELSE span

(***************************************************************************)
(* Diagnostics: span_lint(LINT, span, message).                            *)
(***************************************************************************)
span_lint(l, span, message) == [lint |-> l, span |-> span, message |-> message]

NoNode == [node |-> "None", children |-> <<>>]

(***************************************************************************)
(* security_indexing_usage                                                 *)
(***************************************************************************)
SECURITY_INDEXING_USAGE == "security_indexing_usage"

IndexingMessage == <<"Usage of indexing operation detected.">>

SlicingMessage == <<"Usage of slicing operation detected.">>

IndexImplMessage == <<"Implementation of Index/IndexMut trait detected.">>

\* The range lang items a range expression is lowered to as a struct
\* expression: a..b, a.., ..b and ..
RangeLangItems == {"Range", "RangeFrom", "RangeTo", "RangeFull"}

\* The index operand is a range construction: a struct expression whose
\* path is one of the range lang items.
IsRangeConstruction(index_expr) ==
    index_expr.kind = "Struct" /\ index_expr.qpath \in RangeLangItems

\* Variant of check_expr without the struct-expression arm.
IndexingUsage_check_expr_NoStructArm(expression) ==
    IF expression.kind = "Index"
    THEN <<span_lint(SECURITY_INDEXING_USAGE, expression.span,
                     IndexingMessage)>>
    ELSE <<>>

IndexingUsage_check_expr(expression) ==
    IF expression.kind = "Index"
    THEN IF expression.index_expr.kind = "Lit"
         THEN <<span_lint(SECURITY_INDEXING_USAGE, expression.span,
                          IndexingMessage)>>
         ELSE IF expression.index_expr.kind = "Struct"
         THEN <<span_lint(SECURITY_INDEXING_USAGE, expression.span,
                          SlicingMessage)>>
         ELSE <<span_lint(SECURITY_INDEXING_USAGE, expression.span,
                          IndexingMessage)>>
    ELSE <<>>

index_trait == "core::ops::Index"

index_mut_trait == "core::ops::IndexMut"

\* A resolution carries the DefId it resolved to, if any (an Option, kept as
\* a set of at most one element).
Res(def_id) == [def_id |-> def_id]

opt_def_id(res) == res.def_id

\* Variant of check_item that compares with the Index lang item only.
IndexingUsage_check_item_IndexOnly(item) ==
    IF /\ item.kind = "Impl"
       /\ item.of_trait # <<>>
       /\ {index_trait} = opt_def_id(item.of_trait[1].res)
    THEN <<span_lint(SECURITY_INDEXING_USAGE, item.span, IndexImplMessage)>>
    ELSE <<>>

IndexingUsage_check_item(item) ==
    IF /\ item.kind = "Impl"
       /\ item.of_trait # <<>>
       /\ opt_def_id(item.of_trait[1].res) # {}
    THEN IF \/ {index_trait} = opt_def_id(item.of_trait[1].res)
            \/ {index_mut_trait} = opt_def_id(item.of_trait[1].res)
         THEN <<span_lint(SECURITY_INDEXING_USAGE, item.span,
                          IndexImplMessage)>>
         ELSE <<>>
    ELSE <<>>

\* The subkind of an indexing diagnostic, read off its message.
Category(d) ==
    IF d.message = SlicingMessage THEN "slicing"
    ELSE IF d.message = IndexingMessage THEN "indexing"
    ELSE IF d.message = IndexImplMessage THEN "impl"
    ELSE "none"

(***************************************************************************)
(* missing_type                                                            *)
(***************************************************************************)
MISSING_TYPE == "missing_type"

MISSING_LET_TYPE == "missing_let_type"

MISSING_CLOSURE_PARAM_TYPE == "missing_closure_param_type"

LetMessage == <<"Missing explicit type annotation on let binding.">>

ClosureParamMessage == <<"Closure parameter missing explicit type annotation.">>

\* Variant of check_local without the from_expansion test.
MissingType_check_local_NoExpansionSkip(local) ==
    IF local.pat.kind = "Wild" THEN <<>>
    ELSE IF desugaring_kind_is_some(local.span) THEN <<>>
    ELSE IF local.ty = <<>>
         THEN <<span_lint(MISSING_LET_TYPE, local.pat.span, LetMessage)>>
         ELSE <<>>

MissingType_check_local(local) ==
    IF local.pat.kind = "Wild" THEN <<>>
    ELSE IF from_expansion(local.span) THEN <<>>
    ELSE IF desugaring_kind_is_some(local.span) THEN <<>>
    ELSE IF local.ty = <<>>
         THEN <<span_lint(MISSING_LET_TYPE, local.pat.span, LetMessage)>>
         ELSE <<>>

\* Variant of the loop over body.params that reports the last parameter
\* first.
RECURSIVE ParamDiagnostics_LastFirst(_)
ParamDiagnostics_LastFirst(params) ==
    IF params = <<>> THEN <<>>
    ELSE LET param == Head(params)
         IN  IF /\ param.pat.kind # "Wild"
                /\ is_empty(param.ty_span) \/ param.ty_span = param.pat.span
             THEN ParamDiagnostics_LastFirst(Tail(params))
                  \o <<span_lint(MISSING_CLOSURE_PARAM_TYPE, param.pat.span,
                                 ClosureParamMessage)>>
             ELSE ParamDiagnostics_LastFirst(Tail(params))

\* The loop over body.params: one diagnostic per parameter that is not a wildcard
\* and whose ty_span is empty or is the pattern's span, in parameter order.
RECURSIVE ParamDiagnostics(_)
ParamDiagnostics(params) ==
    IF params = <<>> THEN <<>>
    ELSE LET param == Head(params)
         IN  IF param.pat.kind = "Wild"
             THEN ParamDiagnostics(Tail(params))
             ELSE IF is_empty(param.ty_span) \/ param.ty_span = param.pat.span
                  THEN <<span_lint(MISSING_CLOSURE_PARAM_TYPE, param.pat.span,
                                   ClosureParamMessage)>>
                       \o ParamDiagnostics(Tail(params))
                  ELSE ParamDiagnostics(Tail(params))

\* Variant of check_expr that stops at the first parameter it reports.
MissingType_check_expr_FirstOnly(expression) ==
    IF from_expansion(expression.span) THEN <<>>
    ELSE IF expression.kind # "Closure" THEN <<>>
    ELSE IF expression.closure_kind = "Coroutine" THEN <<>>
    ELSE IF ParamDiagnostics(expression.body.params) = <<>> THEN <<>>
    ELSE <<Head(ParamDiagnostics(expression.body.params))>>

MissingType_check_expr(expression) ==
    IF from_expansion(expression.span) THEN <<>>
    ELSE IF expression.kind # "Closure" THEN <<>>
    ELSE IF expression.closure_kind = "Coroutine" THEN <<>>
    ELSE ParamDiagnostics(expression.body.params)

(***************************************************************************)
(* security_panic_usage                                                    *)
(***************************************************************************)
SECURITY_PANIC_USAGE == "security_panic_usage"

\* The message of a panic diagnostic: the Debug name of the kind between
\* the two fixed parts of the format string (the quotation marks the format
\* string puts around the kind are left out).
PanicMessage(kind) == <<"Call to panic backend ", kind, " detected.">>

\* Variant of from_method that knows unwrap only.
PanicKind_from_method_UnwrapOnly(name) ==
    IF name = "unwrap" THEN <<"Unwrap">> ELSE <<>>

PanicKind_from_method(name) ==
    IF name = "unwrap" THEN <<"Unwrap">>
    ELSE IF name = "expect" THEN <<"Expect">>
    ELSE <<>>

\* A definition path is a sequence of text fragments; str::contains looks
\* for the pattern's fragments as a contiguous run.
contains(path, pattern) ==
    \E i \in 1..(Len(path) - Len(pattern) + 1) :
        SubSeq(path, i, i + Len(pattern) - 1) = pattern

\* Variant of from_def_path that tests panic_fmt before the panicking module.
PanicBackend_from_def_path_FmtFirst(path) ==
    IF contains(path, <<"panic_fmt">>) THEN <<"PanicFmt">>
    ELSE IF contains(path, <<"panicking", "::">>) THEN <<"PanickingModule">>
    ELSE IF contains(path, <<"panic_display">>) THEN <<"PanicDisplay">>
    ELSE IF contains(path, <<"assert_failed">>) THEN <<"AssertFailed">>
    ELSE IF contains(path, <<"begin_panic">>) THEN <<"BeginPanic">>
    ELSE <<>>

PanicBackend_from_def_path(path) ==
    IF contains(path, <<"panicking", "::">>) THEN <<"PanickingModule">>
    ELSE IF contains(path, <<"panic_fmt">>) THEN <<"PanicFmt">>
    ELSE IF contains(path, <<"panic_display">>) THEN <<"PanicDisplay">>
    ELSE IF contains(path, <<"assert_failed">>) THEN <<"AssertFailed">>
    ELSE IF contains(path, <<"begin_panic">>) THEN <<"BeginPanic">>
    ELSE <<>>

\* tcx.def_path_str of a function's DefId.
def_path_str(def_id) == def_id.path

\* Variant of the callee lookup that takes a callee without a definition
\* for the generic panic entry.
CalleeBackend_UnresolvedIsPanic(func) ==
    IF func.kind = "Path" /\ opt_def_id(func.res) # {}
    THEN PanicBackend_from_def_path(
             def_path_str(CHOOSE d \in opt_def_id(func.res) : TRUE))
    ELSE PanicBackend_from_def_path(<<"panicking", "::">>)

\* The backend a call's callee resolves to, if any: the callee is a path, the
\* path resolves to a DefId and the DefId's path names a backend.
CalleeBackend(func) ==
    IF func.kind = "Path" /\ opt_def_id(func.res) # {}
    THEN PanicBackend_from_def_path(
             def_path_str(CHOOSE d \in opt_def_id(func.res) : TRUE))
    ELSE <<>>

\* Variant of check_expr that does not return after an accessor report and
\* reports the node as a generic panic entry as well.
PanicUsage_check_expr_BothFamilies(expression) ==
    IF /\ expression.kind = "MethodCall"
       /\ PanicKind_from_method(expression.segment.ident) # <<>>
    THEN <<span_lint(SECURITY_PANIC_USAGE, expression.span,
               PanicMessage(PanicKind_from_method(expression.segment.ident)[1])),
           span_lint(SECURITY_PANIC_USAGE, source_callsite(expression.span),
               PanicMessage("PanickingModule"))>>
    ELSE IF expression.kind = "Call" /\ CalleeBackend(expression.func) # <<>>
    THEN <<span_lint(SECURITY_PANIC_USAGE, source_callsite(expression.span),
               PanicMessage(CalleeBackend(expression.func)[1]))>>
    ELSE <<>>

\* Variant of check_expr that reports a backend call at the call's own span.
PanicUsage_check_expr_NodeSpan(expression) ==
    IF /\ expression.kind = "MethodCall"
       /\ PanicKind_from_method(expression.segment.ident) # <<>>
    THEN <<span_lint(SECURITY_PANIC_USAGE, expression.span,
               PanicMessage(PanicKind_from_method(expression.segment.ident)[1]))>>
    ELSE IF expression.kind = "Call" /\ CalleeBackend(expression.func) # <<>>
    THEN <<span_lint(SECURITY_PANIC_USAGE, expression.span,
               PanicMessage(CalleeBackend(expression.func)[1]))>>
    ELSE <<>>

PanicUsage_check_expr(expression) ==
    IF /\ expression.kind = "MethodCall"
       /\ PanicKind_from_method(expression.segment.ident) # <<>>
    THEN <<span_lint(SECURITY_PANIC_USAGE, expression.span,
               PanicMessage(PanicKind_from_method(expression.segment.ident)[1]))>>
    ELSE IF expression.kind = "Call" /\ CalleeBackend(expression.func) # <<>>
    THEN <<span_lint(SECURITY_PANIC_USAGE, source_callsite(expression.span),
               PanicMessage(CalleeBackend(expression.func)[1]))>>
    ELSE <<>>

\* The kind an accessor or backend diagnostic is tagged with.
Tag(d) == d.message[2]

(***************************************************************************)
(* security_unsafe_usage                                                   *)
(***************************************************************************)
SECURITY_UNSAFE_USAGE == "security_unsafe_usage"

UnsafeBlockMessage == <<"Usage of unsafe block detected.">>

UnsafeFnMessage == <<"Unsafe function detected.">>

UnsafeTraitMessage == <<"Unsafe trait detected.">>

UnsafeImplMessage == <<"Unsafe impl detected.">>

\* Variant of check_expr that takes an unsafe block from any source.
UnsafeUsage_check_expr_AnySource(expression) ==
    IF expression.kind = "Block" /\ expression.block.rules.mode = "UnsafeBlock"
    THEN <<span_lint(SECURITY_UNSAFE_USAGE, expression.span,
                     UnsafeBlockMessage)>>
    ELSE <<>>

UnsafeUsage_check_expr(expression) ==
    IF /\ expression.kind = "Block"
       /\ expression.block.rules.mode = "UnsafeBlock"
       /\ expression.block.rules.source = "UserProvided"
    THEN <<span_lint(SECURITY_UNSAFE_USAGE, expression.span,
                     UnsafeBlockMessage)>>
    ELSE <<>>

\* Variant of check_item that reports every trait implementation.
UnsafeUsage_check_item_AnyTraitImpl(item) ==
    IF item.kind = "Fn"
    THEN IF item.header_safety = "Normal(Unsafe)"
         THEN <<span_lint(SECURITY_UNSAFE_USAGE, item.span, UnsafeFnMessage)>>
         ELSE <<>>
    ELSE IF item.kind = "Trait"
    THEN IF item.safety = "Unsafe"
         THEN <<span_lint(SECURITY_UNSAFE_USAGE, item.span, UnsafeTraitMessage)>>
         ELSE <<>>
    ELSE IF item.kind = "Impl"
    THEN IF item.of_trait # <<>>
         THEN <<span_lint(SECURITY_UNSAFE_USAGE, item.span, UnsafeImplMessage)>>
         ELSE <<>>
    ELSE <<>>

UnsafeUsage_check_item(item) ==
    IF item.kind = "Fn"
    THEN IF item.header_safety = "Normal(Unsafe)"
         THEN <<span_lint(SECURITY_UNSAFE_USAGE, item.span, UnsafeFnMessage)>>
         ELSE <<>>
    ELSE IF item.kind = "Trait"
    THEN IF item.safety = "Unsafe"
         THEN <<span_lint(SECURITY_UNSAFE_USAGE, item.span, UnsafeTraitMessage)>>
         ELSE <<>>
    ELSE IF item.kind = "Impl"
    THEN IF item.of_trait # <<>> /\ item.of_trait[1].safety = "Unsafe"
         THEN <<span_lint(SECURITY_UNSAFE_USAGE, item.span, UnsafeImplMessage)>>
         ELSE <<>>
    ELSE <<>>

(***************************************************************************)
(* HIR nodes.  Every node carries its span and the child nodes the         *)
(* traversal descends into.                                                *)
(***************************************************************************)
Expr(kind, span, children) ==
    [node |-> "Expr", kind |-> kind, span |-> span, children |-> children]

IndexExpr(span, index_expr) ==
    [node |-> "Expr", kind |-> "Index", span |-> span,
     index_expr |-> index_expr, children |-> <<>>]

IndexOperands ==
    {[kind |-> k] : k \in {"Lit", "Path", "Binary", "Call", "MethodCall"}}
    \cup {[kind |-> "Struct", qpath |-> q] : q \in RangeLangItems \cup {"Resolved"}}

ImplItem(span, of_trait, children) ==
    [node |-> "Item", kind |-> "Impl", span |-> span, of_trait |-> of_trait,
     children |-> children]

FnItem(span, safety, children) ==
    [node |-> "Item", kind |-> "Fn", span |-> span, header_safety |-> safety,
     children |-> children]

TraitItem(span, safety) ==
    [node |-> "Item", kind |-> "Trait", span |-> span, safety |-> safety,
     children |-> <<>>]

StructItem(span) ==
    [node |-> "Item", kind |-> "Struct", span |-> span, children |-> <<>>]

TraitImplHeader(res, safety) == [res |-> res, safety |-> safety]

SeqsUpTo(S, n) == UNION {[1..k -> S] : k \in 0..n}

(***************************************************************************)
(* The compilation units offered to security_indexing_usage.               *)
(***************************************************************************)
SomeSpan == MkSpan(<<0, 1>>, <<>>)

TraitRes ==
    {Res({index_trait}), Res({index_mut_trait}), Res({"core::fmt::Display"}),
     Res({})}

BodyIndexExprs ==
    {IndexExpr(s, o) : s \in DirectSpans,
                       o \in {[kind |-> "Lit"], [kind |-> "Path"],
                              [kind |-> "Struct", qpath |-> "RangeFrom"]}}

BodyExprs == BodyIndexExprs \cup {Expr("Path", SomeSpan, <<>>)}

IndexingImplHeaders ==
    {<<>>} \cup {<<TraitImplHeader(r, "Safe")>> : r \in TraitRes}

IndexingUnits ==
    {<<IndexExpr(s, o)>> : s \in Spans, o \in IndexOperands}
    \cup {<<Expr(k, s, <<>>)>> : k \in {"Lit", "Path", "Call"}, s \in DirectSpans}
    \cup {<<ImplItem(s, t, <<>>)>> : s \in Spans, t \in IndexingImplHeaders}
    \cup {<<ImplItem(SomeSpan, t, b)>> :
              t \in IndexingImplHeaders, b \in SeqsUpTo(BodyExprs, 2)}
    \cup {<<FnItem(s, "Normal(Safe)", b)>> :
              s \in DirectSpans, b \in SeqsUpTo(BodyExprs, 1)}
    \cup {<<StructItem(s)>> : s \in DirectSpans}

(***************************************************************************)
(* The compilation units offered to missing_type.                          *)
(***************************************************************************)
Pat(kind, span) == [kind |-> kind, span |-> span]

LetStmt(span, pat, ty, children) ==
    [node |-> "LetStmt", span |-> span, pat |-> pat, ty |-> ty,
     children |-> children]

Param(pat, ty_span) == [pat |-> pat, ty_span |-> ty_span]

ClosureExpr(span, closure_kind, params) ==
    [node |-> "Expr", kind |-> "Closure", span |-> span,
     closure_kind |-> closure_kind, body |-> [params |-> params],
     children |-> <<>>]

PatKinds == {"Wild", "Binding"}

\* A parameter's type span does not start before its pattern.
TyExtents(e) == {t \in Extents : t[1] >= e[1]}

Params ==
    UNION {{Param(Pat(k, MkSpan(e, <<>>)), MkSpan(t, <<>>)) :
               k \in PatKinds, t \in TyExtents(e)} : e \in NodeExtents}

InferredParam == Param(Pat("Binding", SomeSpan), SomeSpan)

ClosureKinds == {"Closure", "Coroutine"}

SampleClosures ==
    {ClosureExpr(SomeSpan, k, <<InferredParam>>) : k \in ClosureKinds}

MissingTypeUnits ==
    {<<LetStmt(s, Pat(k, p), t, <<>>)>> :
        s \in Spans, k \in PatKinds, p \in DirectSpans, t \in {<<>>, <<"Ty">>}}
    \cup {<<LetStmt(SomeSpan, Pat(k, SomeSpan), t, <<c>>)>> :
        k \in PatKinds, t \in {<<>>, <<"Ty">>}, c \in SampleClosures}
    \cup {<<ClosureExpr(s, k, p)>> :
        s \in Spans, k \in ClosureKinds, p \in {<<>>, <<InferredParam>>}}
    \cup {<<ClosureExpr(SomeSpan, k, p)>> :
        k \in ClosureKinds, p \in SeqsUpTo(Params, MaxParams)}
    \cup {<<Expr(k, s, <<>>)>> : k \in {"Lit", "Path", "Call"}, s \in ShallowSpans}
    \cup {<<FnItem(SomeSpan, "Normal(Safe)",
                   <<LetStmt(SomeSpan, Pat("Binding", SomeSpan), t, <<>>)>>)>> :
        t \in {<<>>, <<"Ty">>}}

(***************************************************************************)
(* The compilation units offered to security_panic_usage.                  *)
(***************************************************************************)
MethodCallExpr(span, ident, receiver_ty) ==
    [node |-> "Expr", kind |-> "MethodCall", span |-> span,
     segment |-> [ident |-> ident], receiver_ty |-> receiver_ty,
     children |-> <<>>]

CallExpr(span, func) ==
    [node |-> "Expr", kind |-> "Call", span |-> span, func |-> func,
     children |-> <<>>]

PathCallee(res) == [kind |-> "Path", res |-> res]

FieldCallee == [kind |-> "Field"]

MethodNames == {"unwrap", "expect", "unwrap_or", "expect_err", "clone"}

ReceiverTys == {"Option", "Result", "Custom"}

PathFragments ==
    {"core", "::", "panicking", "panic_fmt", "panic_display", "assert_failed",
     "begin_panic"}

Paths == UNION {[1..n -> PathFragments] : n \in 1..MaxPathLen}

FnDef(path) == [path |-> path]

SampleCallees ==
    {FieldCallee, PathCallee(Res({})),
     PathCallee(Res({FnDef(<<"core", "::", "panic_fmt">>)})),
     PathCallee(Res({FnDef(<<"begin_panic">>)})),
     PathCallee(Res({FnDef(<<"core", "::", "core">>)}))}

PanicUnits ==
    {<<MethodCallExpr(s, m, r)>> :
        s \in Spans, m \in MethodNames, r \in ReceiverTys}
    \cup {<<CallExpr(s, f)>> : s \in Spans, f \in SampleCallees}
    \cup {<<CallExpr(s, PathCallee(Res({FnDef(p)})))>> :
        s \in ShallowSpans, p \in Paths}
    \cup {<<Expr(k, s, <<>>)>> : k \in {"Lit", "Path", "Index"}, s \in ShallowSpans}
    \cup {<<FnItem(SomeSpan, "Normal(Safe)", <<c>>)>> :
        c \in {CallExpr(SomeSpan, f) : f \in SampleCallees}}
    \cup {<<LetStmt(SomeSpan, Pat("Binding", SomeSpan), <<>>,
                    <<MethodCallExpr(SomeSpan, m, "Option")>>)>> :
        m \in MethodNames}

(***************************************************************************)
(* The compilation units offered to security_unsafe_usage.                 *)
(***************************************************************************)
BlockExpr(span, rules, children) ==
    [node |-> "Expr", kind |-> "Block", span |-> span,
     block |-> [rules |-> rules], children |-> children]

DefaultBlock == [mode |-> "DefaultBlock"]

UnsafeBlock(source) == [mode |-> "UnsafeBlock", source |-> source]

BlockRules ==
    {DefaultBlock, UnsafeBlock("UserProvided"), UnsafeBlock("CompilerGenerated")}

LeafBlocks == {BlockExpr(s, r, <<>>) : s \in DirectSpans, r \in BlockRules}

\* Blocks nested up to d levels deep.
RECURSIVE NestedBlocks(_)
NestedBlocks(d) ==
    IF d = 0 THEN LeafBlocks
    ELSE NestedBlocks(d - 1)
         \cup {BlockExpr(SomeSpan, r, <<c>>) :
                  r \in BlockRules, c \in NestedBlocks(d - 1)}
         \cup {BlockExpr(SomeSpan, r, <<c1, c2>>) :
                  r \in BlockRules, c1 \in LeafBlocks, c2 \in LeafBlocks}

HeaderSafeties == {"Normal(Safe)", "Normal(Unsafe)", "SafeTargetFeatures"}

Safeties == {"Safe", "Unsafe"}

UnsafeImplHeaders ==
    {<<>>} \cup {<<TraitImplHeader(Res({"UserTrait"}), y)>> : y \in Safeties}

UnsafeUnits ==
    {<<BlockExpr(s, r, <<>>)>> : s \in Spans, r \in BlockRules}
    \cup {<<b>> : b \in NestedBlocks(MaxNest)}
    \cup {<<Expr(k, s, <<>>)>> : k \in {"Lit", "Path", "Call"}, s \in DirectSpans}
    \cup {<<FnItem(s, y, <<>>)>> : s \in Spans, y \in HeaderSafeties}
    \cup {<<FnItem(SomeSpan, y, <<b>>)>> :
              y \in HeaderSafeties, b \in NestedBlocks(1)}
    \cup {<<TraitItem(s, y)>> : s \in Spans, y \in Safeties}
    \cup {<<ImplItem(s, t, <<>>)>> : s \in Spans, t \in UnsafeImplHeaders}
    \cup {<<ImplItem(SomeSpan, t, <<b>>)>> :
              t \in UnsafeImplHeaders, b \in NestedBlocks(1)}
    \cup {<<TraitItem(s1, y1), ImplItem(s2, <<TraitImplHeader(Res({"UserTrait"}), y2)>>, <<>>)>> :
              s1 \in DirectSpans, s2 \in DirectSpans, y1 \in Safeties,
              y2 \in Safeties}
    \cup {<<StructItem(s)>> : s \in DirectSpans}
    \cup {<<LetStmt(SomeSpan, Pat("Binding", SomeSpan), <<>>, <<b>>)>> :
              b \in LeafBlocks}

(***************************************************************************)
(* The pass objects.  declare_lint_pass! declares every pass as a struct   *)
(* without fields, and register_lints boxes one such value per library.    *)
(***************************************************************************)
Lints ==
    {SECURITY_UNSAFE_USAGE, SECURITY_INDEXING_USAGE, SECURITY_PANIC_USAGE,
     MISSING_TYPE}

\* The value of a struct without fields.
UnitStruct == <<>>

register_lints == [l \in Lints |-> UnitStruct]

(***************************************************************************)
(* The traversal.  The host offers the next pending node to the hook of    *)
(* the loaded pass that takes nodes of its class and descends into the     *)
(* node's children before its siblings (pre-order).                        *)
(***************************************************************************)
Offered(class) == pending # <<>> /\ Head(pending).node = class

Visit(h, emitted) ==
    /\ cur' = Head(pending)
    /\ hook' = h
    /\ out' = emitted
    /\ diags' = diags \o emitted
    /\ pending' = Head(pending).children \o Tail(pending)
    /\ UNCHANGED <<lint, unit, enabled, turn, visited, offers, previous,
                   passes>>

\* The session: one library loaded, one compilation unit to traverse.
Session(l, units) ==
    /\ lint = l
    /\ unit \in units
    /\ pending = unit
    /\ cur = NoNode
    /\ hook = "none"
    /\ out = <<>>
    /\ diags = <<>>
    /\ enabled = {l}
    /\ turn = 1
    /\ visited = <<>>
    /\ offers = <<>>
    /\ previous = <<>>
    /\ passes = register_lints

\* A hook the pass does not override: LateLintPass's default does nothing.
DefaultHook(classes) ==
    /\ pending # <<>>
    /\ Head(pending).node \in classes
    /\ Visit("default", <<>>)

SecurityIndexingUsage_check_expr ==
    /\ lint = SECURITY_INDEXING_USAGE
    /\ Offered("Expr")
    /\ Visit("check_expr", IndexingUsage_check_expr(Head(pending)))

SecurityIndexingUsage_check_item ==
    /\ lint = SECURITY_INDEXING_USAGE
    /\ Offered("Item")
    /\ Visit("check_item", IndexingUsage_check_item(Head(pending)))

IndexingInit == Session(SECURITY_INDEXING_USAGE, IndexingUnits)

IndexingNext ==
    \/ SecurityIndexingUsage_check_expr
    \/ SecurityIndexingUsage_check_item

SpecIndexing == IndexingInit /\ [][IndexingNext]_vars

MissingType_check_local_hook ==
    /\ lint = MISSING_TYPE
    /\ Offered("LetStmt")
    /\ Visit("check_local", MissingType_check_local(Head(pending)))

MissingType_check_expr_hook ==
    /\ lint = MISSING_TYPE
    /\ Offered("Expr")
    /\ Visit("check_expr", MissingType_check_expr(Head(pending)))

MissingType_default_hook ==
    /\ lint = MISSING_TYPE
    /\ DefaultHook({"Item"})

MissingTypeInit == Session(MISSING_TYPE, MissingTypeUnits)

MissingTypeNext ==
    \/ MissingType_check_local_hook
    \/ MissingType_check_expr_hook
    \/ MissingType_default_hook

SpecMissingType == MissingTypeInit /\ [][MissingTypeNext]_vars

SecurityPanicUsage_check_expr ==
    /\ lint = SECURITY_PANIC_USAGE
    /\ Offered("Expr")
    /\ Visit("check_expr", PanicUsage_check_expr(Head(pending)))

SecurityPanicUsage_default_hook ==
    /\ lint = SECURITY_PANIC_USAGE
    /\ DefaultHook({"Item", "LetStmt"})

PanicInit == Session(SECURITY_PANIC_USAGE, PanicUnits)

PanicNext ==
    \/ SecurityPanicUsage_check_expr
    \/ SecurityPanicUsage_default_hook

SpecPanic == PanicInit /\ [][PanicNext]_vars

SecurityUnsafeUsage_check_expr ==
    /\ lint = SECURITY_UNSAFE_USAGE
    /\ Offered("Expr")
    /\ Visit("check_expr", UnsafeUsage_check_expr(Head(pending)))

SecurityUnsafeUsage_check_item ==
    /\ lint = SECURITY_UNSAFE_USAGE
    /\ Offered("Item")
    /\ Visit("check_item", UnsafeUsage_check_item(Head(pending)))

SecurityUnsafeUsage_default_hook ==
    /\ lint = SECURITY_UNSAFE_USAGE
    /\ DefaultHook({"LetStmt"})

UnsafeInit == Session(SECURITY_UNSAFE_USAGE, UnsafeUnits)

UnsafeNext ==
    \/ SecurityUnsafeUsage_check_expr
    \/ SecurityUnsafeUsage_check_item
    \/ SecurityUnsafeUsage_default_hook

SpecUnsafe == UnsafeInit /\ [][UnsafeNext]_vars

(***************************************************************************)
(* A session with several libraries loaded.  The host offers every node    *)
(* to the loaded passes one after the other, in registration order, and    *)
(* then descends into the node's children.                                 *)
(***************************************************************************)
RuleOrder ==
    <<SECURITY_UNSAFE_USAGE, SECURITY_INDEXING_USAGE, SECURITY_PANIC_USAGE,
      MISSING_TYPE>>

EnabledOrder == SelectSeq(RuleOrder, LAMBDA r : r \in enabled)

\* The hook of LateLintPass that takes the nodes of a class.
HookOf(node) ==
    CASE node.node = "Expr" -> "check_expr"
      [] node.node = "Item" -> "check_item"
      [] node.node = "LetStmt" -> "check_local"

\* The hooks each pass overrides; the others keep the default, empty body.
Overrides(rule) ==
    CASE rule = SECURITY_UNSAFE_USAGE -> {"check_expr", "check_item"}
      [] rule = SECURITY_INDEXING_USAGE -> {"check_expr", "check_item"}
      [] rule = SECURITY_PANIC_USAGE -> {"check_expr"}
      [] rule = MISSING_TYPE -> {"check_local", "check_expr"}

\* What the hook of a pass emits for a node.
HookOutput(rule, node) ==
    CASE rule = SECURITY_UNSAFE_USAGE /\ node.node = "Expr" ->
             UnsafeUsage_check_expr(node)
      [] rule = SECURITY_UNSAFE_USAGE /\ node.node = "Item" ->
             UnsafeUsage_check_item(node)
      [] rule = SECURITY_INDEXING_USAGE /\ node.node = "Expr" ->
             IndexingUsage_check_expr(node)
      [] rule = SECURITY_INDEXING_USAGE /\ node.node = "Item" ->
             IndexingUsage_check_item(node)
      [] rule = SECURITY_PANIC_USAGE /\ node.node = "Expr" ->
             PanicUsage_check_expr(node)
      [] rule = MISSING_TYPE /\ node.node = "LetStmt" ->
             MissingType_check_local(node)
      [] rule = MISSING_TYPE /\ node.node = "Expr" ->
             MissingType_check_expr(node)
      [] OTHER -> <<>>

\* Variant of a hook call whose pass remembers that it has reported and
\* stays silent from then on.
PassCall_SilentAfterMatch(rule, self, node) ==
    IF self # UnitStruct
    THEN [self |-> self, out |-> <<>>]
    ELSE [self |-> HookOutput(rule, node), out |-> HookOutput(rule, node)]

\* Variant of a hook call whose pass remembers what it has reported and
\* does not report the same diagnostic again.
PassCall_ReportOnce(rule, self, node) ==
    [self |-> self \o HookOutput(rule, node),
     out |-> SelectSeq(HookOutput(rule, node),
                       LAMBDA d : \A i \in 1..Len(self) : self[i] # d)]

\* A hook call fn check_*(&mut self, context, node): the pass has no fields,
\* so the call leaves it as it was and the diagnostics depend on the node
\* alone.
PassCall(rule, self, node) ==
    [self |-> self, out |-> HookOutput(rule, node)]

\* Compilation units mixing the constructs of all four rules.
ParamSamples ==
    {InferredParam,
     Param(Pat("Binding", MkSpan(<<1, 2>>, <<>>)), MkSpan(<<1, 2>>, <<>>)),
     Param(Pat("Binding", SomeSpan), MkSpan(<<1, 2>>, <<>>)),
     Param(Pat("Wild", SomeSpan), SomeSpan)}

AllUnits ==
    {<<LetStmt(SomeSpan, Pat("Binding", SomeSpan), t,
               <<ClosureExpr(SomeSpan, "Closure", p)>>)>> :
        t \in {<<>>, <<"Ty">>}, p \in SeqsUpTo(ParamSamples, MaxParams)}
    \cup {<<BlockExpr(SomeSpan, r, <<IndexExpr(SomeSpan, o)>>)>> :
        r \in BlockRules, o \in IndexOperands}
    \cup {<<FnItem(SomeSpan, y, <<CallExpr(s, f),
                                  MethodCallExpr(SomeSpan, m, "Option")>>)>> :
        y \in HeaderSafeties, s \in ShallowSpans, f \in SampleCallees,
        m \in {"unwrap", "clone"}}
    \cup {<<ImplItem(s, t, <<IndexExpr(SomeSpan, [kind |-> "Lit"])>>),
            StructItem(SomeSpan)>> :
        s \in ShallowSpans, t \in IndexingImplHeaders \cup UnsafeImplHeaders}
    \cup {<<TraitItem(SomeSpan, y),
            ClosureExpr(SomeSpan, "Coroutine", <<InferredParam>>)>> :
        y \in Safeties}

\* The host calls the hook of the next loaded pass on the node at hand.
CallHook(rule) ==
    /\ pending # <<>>
    /\ turn <= Len(EnabledOrder)
    /\ EnabledOrder[turn] = rule
    /\ LET call == PassCall(rule, passes[rule], Head(pending))
       IN  /\ passes' = [passes EXCEPT ![rule] = call.self]
           /\ out' = call.out
           /\ diags' = diags \o call.out
           /\ offers' = Append(offers, [visit |-> Len(visited) + 1,
                                         pass |-> rule,
                                         node |-> Head(pending),
                                         out |-> call.out])
    /\ lint' = rule
    /\ cur' = Head(pending)
    /\ hook' = IF HookOf(Head(pending)) \in Overrides(rule)
               THEN HookOf(Head(pending)) ELSE "default"
    /\ turn' = turn + 1
    /\ UNCHANGED <<unit, pending, enabled, visited, previous>>

Session_SecurityUnsafeUsage == CallHook(SECURITY_UNSAFE_USAGE)

Session_SecurityIndexingUsage == CallHook(SECURITY_INDEXING_USAGE)

Session_SecurityPanicUsage == CallHook(SECURITY_PANIC_USAGE)

Session_MissingType == CallHook(MISSING_TYPE)

\* Every loaded pass has seen the node: the host goes on to its children,
\* then to its siblings.
Descend ==
    /\ pending # <<>>
    /\ turn > Len(EnabledOrder)
    /\ visited' = Append(visited, Head(pending))
    /\ pending' = Head(pending).children \o Tail(pending)
    /\ turn' = 1
    /\ UNCHANGED <<lint, unit, cur, hook, out, diags, enabled, offers,
                   previous, passes>>

\* The host traverses the same unit once more with the same passes.
Rerun ==
    /\ pending = <<>>
    /\ previous = <<>>
    /\ previous' = <<[visited |-> visited, offers |-> offers,
                      diags |-> diags]>>
    /\ pending' = unit
    /\ visited' = <<>>
    /\ offers' = <<>>
    /\ diags' = <<>>
    /\ out' = <<>>
    /\ cur' = NoNode
    /\ hook' = "none"
    /\ turn' = 1
    /\ UNCHANGED <<lint, unit, enabled, passes>>

AllInit ==
    /\ lint = "none"
    /\ enabled \in SUBSET Lints
    /\ unit \in AllUnits
    /\ pending = unit
    /\ cur = NoNode
    /\ hook = "none"
    /\ out = <<>>
    /\ diags = <<>>
    /\ turn = 1
    /\ visited = <<>>
    /\ offers = <<>>
    /\ previous = <<>>
    /\ passes = register_lints

AllNext ==
    \/ Session_SecurityUnsafeUsage
    \/ Session_SecurityIndexingUsage
    \/ Session_SecurityPanicUsage
    \/ Session_MissingType
    \/ Descend
    \/ Rerun

SpecAll == AllInit /\ [][AllNext]_vars

(***************************************************************************)
(* Properties of security_indexing_usage.                                  *)
(***************************************************************************)
IndexExprOffered ==
    /\ lint = SECURITY_INDEXING_USAGE
    /\ hook = "check_expr"
    /\ cur.kind = "Index"

\* C1: an index expression whose index operand is a range construction
\* (a..b, a.., ..b or ..) gets exactly one diagnostic, at the index
\* expression's span, of category "slicing".
C1_RangeOperandIsSlicing ==
    (IndexExprOffered /\ IsRangeConstruction(cur.index_expr))
        => /\ Len(out) = 1
           /\ out[1].span = cur.span
           /\ Category(out[1]) = "slicing"

C1_Witness ==
    /\ IndexExprOffered
    /\ cur.index_expr = [kind |-> "Struct", qpath |-> "RangeFull"]
    /\ from_expansion(cur.span)
    /\ Len(out) = 1

\* C2: an index expression whose index operand is not a range construction
\* gets exactly one diagnostic, of category "indexing" and never "slicing".
C2_NonRangeOperandIsIndexing ==
    (IndexExprOffered /\ ~IsRangeConstruction(cur.index_expr))
        => /\ Len(out) = 1
           /\ Category(out[1]) = "indexing"

IsIndexingImpl(item) ==
    /\ item.kind = "Impl"
    /\ item.of_trait # <<>>
    /\ item.of_trait[1].res \in {Res({index_trait}), Res({index_mut_trait})}

IndexExprsIn(nodes) ==
    {i \in 1..Len(nodes) : nodes[i].node = "Expr" /\ nodes[i].kind = "Index"}

\* C3: the item check flags a declaration iff it implements Index or
\* IndexMut, then exactly once at the implementation's span; inherent
\* implementations and implementations of other traits are not flagged; and
\* over the whole implementation the item diagnostic comes in addition to one
\* diagnostic per index expression of the body.
C3_IndexImplFlaggedOnce ==
    /\ (lint = SECURITY_INDEXING_USAGE /\ hook = "check_item")
           => /\ (out # <<>>) <=> IsIndexingImpl(cur)
              /\ IsIndexingImpl(cur)
                    => /\ Len(out) = 1
                       /\ out[1].span = cur.span
                       /\ Category(out[1]) = "impl"
    /\ (/\ lint = SECURITY_INDEXING_USAGE
        /\ pending = <<>>
        /\ Len(unit) = 1
        /\ unit[1].node = "Item"
        /\ unit[1].kind = "Impl")
           => /\ Len(diags) = (IF IsIndexingImpl(unit[1]) THEN 1 ELSE 0)
                                + Cardinality(IndexExprsIn(unit[1].children))
              /\ IsIndexingImpl(unit[1])
                    => /\ diags[1].span = unit[1].span
                       /\ Category(diags[1]) = "impl"
              /\ \A i \in 1..Len(diags) :
                    (Category(diags[i]) = "impl")
                        <=> (i = 1 /\ IsIndexingImpl(unit[1]))

C3_Witness ==
    /\ lint = SECURITY_INDEXING_USAGE
    /\ pending = <<>>
    /\ Len(unit) = 1
    /\ IsIndexingImpl(unit[1])
    /\ unit[1].of_trait[1].res = Res({index_mut_trait})
    /\ Cardinality(IndexExprsIn(unit[1].children)) = 2
    /\ Len(diags) = 3

(***************************************************************************)
(* Properties of missing_type.                                             *)
(***************************************************************************)
\* The origin of a span: written by the user, produced by a macro expansion
\* or produced by a compiler desugaring.
Origin(span) ==
    IF span.expn = <<>> THEN "Direct"
    ELSE IF Head(span.expn).kind = "Macro" THEN "MacroExpansion"
    ELSE "Desugared"

\* C4: a binding declaration gets exactly one diagnostic, at the pattern's
\* span, iff its pattern is not a wildcard, its span comes neither from a
\* macro expansion nor from a desugaring, and it has no type annotation;
\* otherwise it gets none.
C4_BindingCheck ==
    (lint = MISSING_TYPE /\ hook = "check_local")
        => IF /\ cur.pat.kind # "Wild"
              /\ Origin(cur.span) # "MacroExpansion"
              /\ Origin(cur.span) # "Desugared"
              /\ cur.ty = <<>>
           THEN /\ Len(out) = 1
                /\ out[1].span = cur.pat.span
                /\ out[1].lint = MISSING_LET_TYPE
           ELSE out = <<>>

C4_Witness ==
    /\ lint = MISSING_TYPE
    /\ hook = "check_local"
    /\ cur.pat.kind = "Binding"
    /\ cur.ty = <<>>
    /\ cur.span.expn = <<>>
    /\ cur.pat.span # cur.span
    /\ Len(out) = 1

ClosureOffered ==
    /\ lint = MISSING_TYPE
    /\ hook = "check_expr"
    /\ cur.kind = "Closure"

\* The parameters of a closure that are not wildcards and have no explicit type.
Unannotated(closure) ==
    {i \in 1..Len(closure.body.params) :
        /\ closure.body.params[i].pat.kind # "Wild"
        /\ \/ closure.body.params[i].ty_span.lo = closure.body.params[i].ty_span.hi
           \/ closure.body.params[i].ty_span = closure.body.params[i].pat.span}

\* One diagnostic per unannotated parameter, each at its parameter's
\* pattern span, in parameter order.
OnePerUnannotated(closure, emitted) ==
    /\ Len(emitted) = Cardinality(Unannotated(closure))
    /\ \A i \in Unannotated(closure) :
          LET k == Cardinality({j \in Unannotated(closure) : j <= i})
          IN  /\ emitted[k].span = closure.body.params[i].pat.span
              /\ emitted[k].lint = MISSING_CLOSURE_PARAM_TYPE

\* C5 as stated: every closure that is not a coroutine gets one diagnostic
\* per unannotated non-wildcard parameter; a coroutine closure gets none.
C5_Original ==
    ClosureOffered
        => IF cur.closure_kind = "Coroutine"
           THEN out = <<>>
           ELSE OnePerUnannotated(cur, out)

\* C5 amended: every closure whose span does not come from an expansion and
\* that is not a coroutine gets one diagnostic per unannotated non-wildcard
\* parameter, at that parameter's pattern span; a closure whose span comes
\* from an expansion, and a coroutine closure, get none.
C5_ClosureParamCheck ==
    ClosureOffered
        => IF cur.closure_kind = "Coroutine" \/ cur.span.expn # <<>>
           THEN out = <<>>
           ELSE OnePerUnannotated(cur, out)

C5_Witness ==
    /\ ClosureOffered
    /\ cur.closure_kind = "Closure"
    /\ cur.span.expn = <<>>
    /\ Len(cur.body.params) = 2
    /\ Cardinality(Unannotated(cur)) = 2
    /\ cur.body.params[1].pat.span # cur.body.params[2].pat.span
    /\ Len(out) = 2

(***************************************************************************)
(* Properties of security_panic_usage.                                     *)
(***************************************************************************)
PanicExprOffered(kind) ==
    /\ lint = SECURITY_PANIC_USAGE
    /\ hook = "check_expr"
    /\ cur.kind = kind

AccessorKinds == {"Unwrap", "Expect"}

\* C6: a method call gets an accessor diagnostic iff its method name is
\* unwrap or expect, whatever the receiver; then exactly one, tagged Unwrap
\* for unwrap and Expect for expect.
C6_AccessorByName ==
    PanicExprOffered("MethodCall")
        => /\ (\E i \in 1..Len(out) : Tag(out[i]) \in AccessorKinds)
                <=> cur.segment.ident \in {"unwrap", "expect"}
           /\ cur.segment.ident = "unwrap"
                => Len(out) = 1 /\ Tag(out[1]) = "Unwrap"
           /\ cur.segment.ident = "expect"
                => Len(out) = 1 /\ Tag(out[1]) = "Expect"

C6_Witness ==
    /\ PanicExprOffered("MethodCall")
    /\ cur.segment.ident = "expect"
    /\ cur.receiver_ty = "Custom"
    /\ Len(out) = 1

\* The backend signatures in their fixed order, with the kind of each.
BackendSignatures ==
    << <<"PanickingModule", <<"panicking", "::">> >>,
       <<"PanicFmt", <<"panic_fmt">> >>,
       <<"PanicDisplay", <<"panic_display">> >>,
       <<"AssertFailed", <<"assert_failed">> >>,
       <<"BeginPanic", <<"begin_panic">> >> >>

Matching(path) ==
    {i \in 1..Len(BackendSignatures) : contains(path, BackendSignatures[i][2])}

ResolvedPaths(call) ==
    IF call.func.kind = "Path"
    THEN {d.path : d \in call.func.res.def_id}
    ELSE {}

\* C7: a direct call gets a backend diagnostic iff its callee resolves to a
\* path that contains one of the five signatures, and the diagnostic is
\* tagged with the kind of the earliest signature of the list the path
\* contains.
C7_BackendFirstMatch ==
    PanicExprOffered("Call")
        => /\ (out # <<>>)
                <=> \E p \in ResolvedPaths(cur) : Matching(p) # {}
           /\ \A p \in ResolvedPaths(cur) :
                Matching(p) # {}
                    => /\ Len(out) = 1
                       /\ \E i \in Matching(p) :
                            /\ \A j \in Matching(p) : i <= j
                            /\ Tag(out[1]) = BackendSignatures[i][1]

C7_Witness ==
    /\ PanicExprOffered("Call")
    /\ \E p \in ResolvedPaths(cur) :
          Cardinality(Matching(p)) >= 2 /\ p[1] = "begin_panic"
    /\ Len(out) = 1
    /\ Tag(out[1]) = "PanicDisplay"

\* C8: a backend diagnostic for a call whose span comes from expansions
\* nested to any depth carries the call site of the outermost expansion, a
\* span outside every expansion; for a call written directly it carries the
\* call's own span.
C8_BackendSpanIsOutermostCallSite ==
    (PanicExprOffered("Call") /\ out # <<>>)
        => IF cur.span.expn = <<>>
           THEN out[1].span = cur.span
           ELSE LET outermost == cur.span.expn[Len(cur.span.expn)]
                IN  /\ out[1].span.expn = <<>>
                    /\ <<out[1].span.lo, out[1].span.hi>> = outermost.call_site

C8_Witness ==
    /\ PanicExprOffered("Call")
    /\ out # <<>>
    /\ Len(cur.span.expn) = 2
    /\ cur.span.expn[1].kind = "Macro"
    /\ cur.span.expn[2].kind = "Macro"
    /\ cur.span.expn[1].call_site # cur.span.expn[2].call_site
    /\ <<cur.span.lo, cur.span.hi>> # cur.span.expn[2].call_site

(***************************************************************************)
(* Properties of security_unsafe_usage.                                    *)
(***************************************************************************)
IsUserUnsafeBlock(e) ==
    /\ e.node = "Expr"
    /\ e.kind = "Block"
    /\ e.block.rules = UnsafeBlock("UserProvided")

\* Every block among the nodes and below them is an ordinary block.
RECURSIVE AllOrdinary(_)
AllOrdinary(nodes) ==
    \A i \in 1..Len(nodes) :
        /\ nodes[i].node = "Expr"
        /\ nodes[i].kind = "Block"
        /\ nodes[i].block.rules = DefaultBlock
        /\ AllOrdinary(nodes[i].children)

\* C9: a block gets a diagnostic iff it is an unsafe block written by the
\* user, then exactly one at the block's span; an ordinary block gets none,
\* also inside an unsafe block, so an unsafe block with only ordinary blocks
\* nested in it yields exactly one diagnostic in total.
C9_UnsafeBlockFlaggedOnce ==
    /\ (lint = SECURITY_UNSAFE_USAGE /\ hook = "check_expr" /\ cur.kind = "Block")
           => /\ (out # <<>>) <=> IsUserUnsafeBlock(cur)
              /\ IsUserUnsafeBlock(cur)
                    => Len(out) = 1 /\ out[1].span = cur.span
    /\ (/\ lint = SECURITY_UNSAFE_USAGE
        /\ pending = <<>>
        /\ Len(unit) = 1
        /\ IsUserUnsafeBlock(unit[1])
        /\ AllOrdinary(unit[1].children))
           => /\ Len(diags) = 1
              /\ diags[1].span = unit[1].span

C9_Witness ==
    /\ lint = SECURITY_UNSAFE_USAGE
    /\ pending = <<>>
    /\ Len(unit) = 1
    /\ IsUserUnsafeBlock(unit[1])
    /\ Len(unit[1].children) = 1
    /\ Len(unit[1].children[1].children) = 1
    /\ AllOrdinary(unit[1].children)
    /\ cur = unit[1].children[1].children[1]
    /\ Len(diags) = 1

\* The declaration is a function, a trait or a trait implementation that is
\* marked unsafe.
MarkedUnsafe(item) ==
    \/ item.kind = "Fn" /\ item.header_safety = "Normal(Unsafe)"
    \/ item.kind = "Trait" /\ item.safety = "Unsafe"
    \/ /\ item.kind = "Impl"
       /\ item.of_trait # <<>>
       /\ item.of_trait[1].safety = "Unsafe"

UserVisible(span) == span.expn = <<>>

\* C11: every diagnostic emitted during a traversal carries a user-visible
\* span, also when the matched node lies inside a macro expansion.
C11_DiagnosticSpansUserVisible ==
    \A i \in 1..Len(diags) : UserVisible(diags[i].span)


RECURSIVE PreOrder(_)
PreOrder(nodes) ==
    IF nodes = <<>> THEN <<>>
    ELSE <<Head(nodes)>> \o PreOrder(Head(nodes).children)
         \o PreOrder(Tail(nodes))

\* The diagnostics of a sequence of hook calls, in the order of the calls.
RECURSIVE Emitted(_)
Emitted(calls) ==
    IF calls = <<>> THEN <<>> ELSE Head(calls).out \o Emitted(Tail(calls))

TraversalDone == pending = <<>>

\* C13: the nodes left behind are the unit's nodes in pre-order, each once;
\* the k-th node is offered to every loaded pass, in registration order,
\* before the next node is; the diagnostics are those of the hook calls in
\* the order of the calls, and within one closure in parameter order.
C13_TraversalOrder ==
    /\ Len(visited) <= Len(PreOrder(unit))
    /\ \A k \in 1..Len(visited) : visited[k] = PreOrder(unit)[k]
    /\ TraversalDone => visited = PreOrder(unit)
    /\ TraversalDone => Len(offers) = Len(visited) * Len(EnabledOrder)
    /\ \A i \in 1..Len(offers) :
          /\ offers[i].visit = ((i - 1) \div Len(EnabledOrder)) + 1
          /\ offers[i].pass = EnabledOrder[((i - 1) % Len(EnabledOrder)) + 1]
          /\ offers[i].node = PreOrder(unit)[offers[i].visit]
    /\ diags = Emitted(offers)
    /\ \A i \in 1..Len(offers) :
          /\ offers[i].pass = MISSING_TYPE
          /\ offers[i].node.node = "Expr"
          /\ offers[i].node.kind = "Closure"
          /\ offers[i].node.closure_kind = "Closure"
          /\ offers[i].node.span.expn = <<>>
          => OnePerUnannotated(offers[i].node, offers[i].out)

\* A finished traversal with all four libraries loaded of a unit with a
\* nested node, in which a binding and both parameters of its closure were
\* reported.
C13_Witness ==
    /\ TraversalDone
    /\ enabled = Lints
    /\ Len(visited) >= 2
    /\ visited[1].children = <<visited[2]>>
    /\ Len(diags) = 3
    /\ diags[1].lint = MISSING_LET_TYPE
    /\ diags[2].span # diags[3].span

\* The hook calls of the traversal before this one, if there was one.
PreviousCalls == IF previous = <<>> THEN <<>> ELSE previous[1].offers

AllCalls == PreviousCalls \o offers

Classifies(rule, node) ==
    CASE rule = SECURITY_UNSAFE_USAGE ->
             \/ node.node = "Expr" /\ node.kind = "Block"
             \/ node.node = "Item" /\ node.kind \in {"Fn", "Trait", "Impl"}
      [] rule = SECURITY_INDEXING_USAGE ->
             \/ node.node = "Expr" /\ node.kind = "Index"
             \/ node.node = "Item" /\ node.kind = "Impl"
      [] rule = SECURITY_PANIC_USAGE ->
             node.node = "Expr" /\ node.kind \in {"MethodCall", "Call"}
      [] rule = MISSING_TYPE ->
             \/ node.node = "LetStmt"
             \/ node.node = "Expr" /\ node.kind = "Closure"

\* A direct call whose callee is not a path or does not resolve.
UnresolvedCall(node) ==
    /\ node.node = "Expr"
    /\ node.kind = "Call"
    /\ \/ node.func.kind # "Path"
       \/ opt_def_id(node.func.res) = {}

\* A trait implementation whose trait does not resolve.
UnresolvedImpl(node) ==
    /\ node.node = "Item"
    /\ node.kind = "Impl"
    /\ node.of_trait # <<>>
    /\ opt_def_id(node.of_trait[1].res) = {}

\* C15: a pass emits nothing for a node it has no case for, the panic pass
\* nothing for a call whose callee is not a path or does not resolve, the
\* indexing pass nothing for an implementation whose trait does not
\* resolve; and while nodes remain the traversal has a next step: the next
\* loaded pass takes the node at hand, or the host moves on.
C15_FailOpen ==
    /\ \A i \in 1..Len(offers) :
          /\ ~Classifies(offers[i].pass, offers[i].node)
                => offers[i].out = <<>>
          /\ offers[i].pass = SECURITY_PANIC_USAGE /\ UnresolvedCall(offers[i].node)
                => offers[i].out = <<>>
          /\ offers[i].pass = SECURITY_INDEXING_USAGE
             /\ UnresolvedImpl(offers[i].node)
                => offers[i].out = <<>>
    /\ pending # <<>> /\ turn <= Len(EnabledOrder)
          => ENABLED CallHook(EnabledOrder[turn])
    /\ pending # <<>> /\ turn > Len(EnabledOrder) => ENABLED Descend

\* The panic pass was offered a call whose callee does not resolve and the
\* indexing pass an implementation whose trait does not resolve, in two
\* units; each time the traversal went on to a later node.
C15_Witness ==
    /\ Len(visited) >= 2
    /\ \E i \in 1..Len(offers) :
          /\ offers[i].visit = 1 \/ offers[i].visit = 2
          /\ offers[i].out = <<>>
          /\ \/ /\ offers[i].pass = SECURITY_PANIC_USAGE
                /\ UnresolvedCall(offers[i].node)
             \/ /\ offers[i].pass = SECURITY_INDEXING_USAGE
                /\ UnresolvedImpl(offers[i].node)
    /\ \E j \in 1..Len(offers) : offers[j].visit = 3

(***************************************************************************)
(* The two families of security_panic_usage.                               *)
(***************************************************************************)
BackendKinds == {BackendSignatures[i][1] : i \in 1..Len(BackendSignatures)}

IsAccessorCall(node) ==
    node.kind = "MethodCall" /\ node.segment.ident \in {"unwrap", "expect"}

\* C16: check_expr emits at most one diagnostic for a node; for a method
\* call named unwrap or expect it is an accessor diagnostic and never a
\* backend one, and for every other node it can only be a backend
\* diagnostic, of a direct call.
C16_OneFamilyPerNode ==
    lint = SECURITY_PANIC_USAGE /\ hook = "check_expr"
        => /\ Len(out) <= 1
           /\ IsAccessorCall(cur)
                 => \A i \in 1..Len(out) : Tag(out[i]) \in AccessorKinds
           /\ ~IsAccessorCall(cur)
                 => \A i \in 1..Len(out) :
                       /\ Tag(out[i]) \in BackendKinds
                       /\ cur.kind = "Call"

\* An expect call inside a macro expansion was reported, once, as Expect.
C16_Witness ==
    /\ lint = SECURITY_PANIC_USAGE
    /\ hook = "check_expr"
    /\ IsAccessorCall(cur)
    /\ cur.segment.ident = "expect"
    /\ cur.span.expn # <<>>
    /\ Len(out) = 1
    /\ Tag(out[1]) = "Expect"


=============================================================================
